---- MODULE Spec2Model ----
(***************************************************************************)
(* Model of lastuserapp/forms/client.py: the client, permission, resource  *)
(* and resource-action forms, their validators, and the stores they query. *)
(* Submissions are modelled with their other required fields (title,       *)
(* description, website) filled in and well formed; names are non-empty.   *)
(***************************************************************************)
EXTENDS Integers, Sequences, FiniteSets, TLC

\* ---------------------------------------------------------------- bounds
MaxOwned == 2
MaxPerms == 2
MaxResources == 2
MaxActions == 3
MaxRequests == 2

VARIABLES owned, perms, resources, actions, client, grants, requests, last

vars == <<owned, perms, resources, actions, client, grants, requests, last>>

\* ------------------------------------------------------------ principals
\* g.user, the authenticated acting user of the request.
g_user == "U"

\* The organizations on record (Organization rows).
Organization == {"orgA", "orgB", "orgC"}

\* The userid column of a principal; one namespace for users and organizations.
userid(principal) ==
    CASE principal = "U" -> "idU"
      [] principal = "V" -> "idV"
      [] principal = "orgA" -> "idA"
      [] principal = "orgB" -> "idB"
      [] principal = "orgC" -> "idC"

\* Identifier tokens a radio field can be submitted with ("idX" names nothing).
Identifiers == {"idU", "idA", "idB", "idC", "idX"}

\* g.user.organizations_owned(): the list the validators filter.
organizations_owned == owned

\* Attributes user / org of a form object that were never assigned.
UnsetForm == [user |-> "Unset", org |-> "Unset"]

\* ------------------------------------------------------------------ names
LowerAlnum == {"a", "b", "1"}
Punctuation == {"-"}

\* Submitted names: two well-formed ones, one with an uppercase letter, one
\* with a space.
Names == {<<"a">>, <<"b", "-", "1">>, <<"A">>, <<"a", " ", "b">>}

\* lastuserapp.utils.valid_username: lowercase alphanumerics plus limited
\* punctuation, no spaces.
valid_username(candidate) ==
    /\ Len(candidate) > 0
    /\ \A i \in 1..Len(candidate) : candidate[i] \in LowerAlnum \cup Punctuation

\* Query.first(): some matching row, or None (here NoRow) when there is none.
NoPermission == [id |-> 0, name |-> <<>>, allusers |-> FALSE, user |-> "None", org |-> "None"]
NoResource == [id |-> 0, name |-> <<>>]
NoAction == [id |-> 0, name |-> <<>>, resource |-> 0]

first(rows, none) == IF rows = {} THEN {none} ELSE rows

\* ------------------------------------------------- ownership resolution
\* Mutant: the owner filter runs over every organization on record.
validate_client_owner_anyorg(self, data) ==
    IF data = userid(g_user)
    THEN [raised |-> FALSE, user |-> g_user, org |-> "None", lookups |-> <<>>]
    ELSE LET orgs == {org \in Organization : userid(org) = data}
         IN  IF Cardinality(orgs) # 1
             THEN [raised |-> TRUE, user |-> self.user, org |-> self.org,
                   lookups |-> <<"organizations_owned">>]
             ELSE [raised |-> FALSE, user |-> "None", org |-> CHOOSE o \in orgs : TRUE,
                   lookups |-> <<"organizations_owned">>]

\* RegisterClientForm.validate_client_owner(self, field), data = field.data.
\* raised: ValidationError("Invalid owner"); user, org: self.user, self.org after.
validate_client_owner(self, data) ==
    IF data = userid(g_user)
    THEN [raised |-> FALSE, user |-> g_user, org |-> "None", lookups |-> <<>>]
    ELSE LET orgs == SelectSeq(organizations_owned, LAMBDA org : userid(org) = data)
         IN  IF Len(orgs) # 1
             THEN [raised |-> TRUE, user |-> self.user, org |-> self.org,
                   lookups |-> <<"organizations_owned">>]
             ELSE [raised |-> FALSE, user |-> "None", org |-> orgs[1],
                   lookups |-> <<"organizations_owned">>]

\* Mutant: the attributes are assigned before the match count is tested.
validate_context_assignfirst(self, data) ==
    IF data = userid(g_user)
    THEN [raised |-> FALSE, user |-> g_user, org |-> "None", lookups |-> <<>>]
    ELSE LET orgs == SelectSeq(organizations_owned, LAMBDA org : userid(org) = data)
         IN  IF Len(orgs) # 1
             THEN [raised |-> TRUE, user |-> "None",
                   org |-> IF Len(orgs) = 0 THEN "None" ELSE orgs[1],
                   lookups |-> <<"organizations_owned">>]
             ELSE [raised |-> FALSE, user |-> "None", org |-> orgs[1],
                   lookups |-> <<"organizations_owned">>]

\* PermissionForm.validate_context(self, field), data = field.data.
\* raised: ValidationError("Invalid context").
validate_context(self, data) ==
    IF data = userid(g_user)
    THEN [raised |-> FALSE, user |-> g_user, org |-> "None", lookups |-> <<>>]
    ELSE LET orgs == SelectSeq(organizations_owned, LAMBDA org : userid(org) = data)
         IN  IF Len(orgs) # 1
             THEN [raised |-> TRUE, user |-> self.user, org |-> self.org,
                   lookups |-> <<"organizations_owned">>]
             ELSE [raised |-> FALSE, user |-> "None", org |-> orgs[1],
                   lookups |-> <<"organizations_owned">>]

\* ------------------------------------------------------------- the state
\* What the most recent form submission was and how it ended.
NoSubmission ==
    [form |-> "none", op |-> "none", name |-> <<>>, data |-> "", allusers |-> FALSE,
     edit |-> 0, resource |-> 0, result |-> "none", lookups |-> <<>>,
     user |-> "Unset", org |-> "Unset", revoked |-> 0]

\* A client application that is not registered yet has no owner.
NoClient == [user |-> "None", org |-> "None"]

OwnedLists == UNION {[1..n -> Organization] : n \in 0..MaxOwned}

Init ==
    /\ owned \in OwnedLists
    /\ perms = {}
    /\ resources = {}
    /\ actions = {}
    /\ client = NoClient
    /\ grants = {}
    /\ requests = [r \in 1..MaxRequests |-> [pc |-> "idle"]]
    /\ last = NoSubmission

\* -------------------------------------------- the owner / context fields
\* The form object the next field validation runs on: the one validated last
\* when it is of the same form class, else a newly constructed one.
FormObject(form) ==
    IF last.form = form THEN [user |-> last.user, org |-> last.org] ELSE UnsetForm

\* Field.validate on RegisterClientForm.client_owner: runs the inline validator
\* and turns its ValidationError into a field error.
ValidateClientOwnerField(data) ==
    LET rv == validate_client_owner(FormObject("RegisterClientForm"), data)
    IN  /\ last' = [NoSubmission EXCEPT
                      !.form = "RegisterClientForm", !.op = "field", !.data = data,
                      !.result = IF rv.raised THEN "InvalidOwner" ELSE "ok",
                      !.lookups = rv.lookups, !.user = rv.user, !.org = rv.org]
        /\ UNCHANGED <<owned, perms, resources, actions, client, grants, requests>>

\* Field.validate on PermissionForm.context.
ValidateContextField(data) ==
    LET rv == validate_context(FormObject("PermissionForm"), data)
    IN  /\ last' = [NoSubmission EXCEPT
                      !.form = "PermissionForm", !.op = "field", !.data = data,
                      !.result = IF rv.raised THEN "InvalidContext" ELSE "ok",
                      !.lookups = rv.lookups, !.user = rv.user, !.org = rv.org]
        /\ UNCHANGED <<owned, perms, resources, actions, client, grants, requests>>

NextOwner ==
    \/ \E data \in Identifiers : ValidateClientOwnerField(data)
    \/ \E data \in Identifiers : ValidateContextField(data)

SpecOwner == Init /\ [][NextOwner]_vars

\* ---------------------------------------------------- PermissionForm.validate
\* edit_obj = getattr(self, 'edit_obj', None); its id, or None (here 0).
edit_id_of(edit_obj) ==
    IF edit_obj # NoPermission THEN edit_obj.id ELSE 0

\* Mutant: the global lookup finds nothing.
global_existing_none(name, store) == {NoPermission}

\* Permission.query.filter_by(name=self.name.data, allusers=True).first()
global_existing(name, store) ==
    first({p \in store : p.name = name /\ p.allusers}, NoPermission)

\* Mutant: the scoped lookup is always made under the acting user.
scoped_existing_useronly(name, context, store) ==
    {[existing |-> e, lookups |-> <<"Permission.user">>] :
        e \in first({p \in store : p.name = name /\ p.user = g_user}, NoPermission)}

\* The lookup under the submitted context: under g.user, or under the
\* organization on record with that userid (None when there is none).
scoped_existing(name, context, store) ==
    IF context = userid(g_user)
    THEN {[existing |-> e, lookups |-> <<"Permission.user">>] :
            e \in first({p \in store : p.name = name /\ p.user = g_user}, NoPermission)}
    ELSE UNION {
            IF org # "None"
            THEN {[existing |-> e, lookups |-> <<"Organization", "Permission.org">>] :
                    e \in first({p \in store : p.name = name /\ p.org = org}, NoPermission)}
            ELSE {[existing |-> NoPermission, lookups |-> <<"Organization">>]} :
            org \in first({o \in Organization : userid(o) = context}, "None")}

Outcome(result, lookups, user, org) ==
    [result |-> result, lookups |-> lookups, user |-> user, org |-> org]

\* Mutant: the scoped conflict is looked up and reported before the global one.
PermissionForm_validate_scopedfirst(name, context, edit_obj, store) ==
    LET rv == validate_context(UnsetForm, context)
        edit_id == edit_id_of(edit_obj)
    IN  IF rv.raised
        THEN {Outcome("InvalidContext", rv.lookups, rv.user, rv.org)}
        ELSE IF ~valid_username(name)
        THEN {Outcome("ValidationErrorRaised", rv.lookups, rv.user, rv.org)}
        ELSE UNION {
            IF s.existing # NoPermission /\ s.existing.id # edit_id
            THEN {Outcome("DuplicateScoped", rv.lookups \o s.lookups, rv.user, rv.org)}
            ELSE {IF g # NoPermission /\ g.id # edit_id
                  THEN Outcome("DuplicateGlobal",
                               rv.lookups \o s.lookups \o <<"Permission.allusers">>,
                               rv.user, rv.org)
                  ELSE Outcome("ok", rv.lookups \o s.lookups \o <<"Permission.allusers">>,
                               rv.user, rv.org) :
                  g \in global_existing(name, store)} :
            s \in scoped_existing(name, context, store)}

\* Mutant: the edited row is not excepted from the conflicts.
PermissionForm_validate_noedit(name, context, edit_obj, store) ==
    LET rv == validate_context(UnsetForm, context)
    IN  IF rv.raised
        THEN {Outcome("InvalidContext", rv.lookups, rv.user, rv.org)}
        ELSE IF ~valid_username(name)
        THEN {Outcome("ValidationErrorRaised", rv.lookups, rv.user, rv.org)}
        ELSE UNION {
            IF g # NoPermission
            THEN {Outcome("DuplicateGlobal", rv.lookups \o <<"Permission.allusers">>,
                          rv.user, rv.org)}
            ELSE {IF s.existing # NoPermission
                  THEN Outcome("DuplicateScoped",
                               rv.lookups \o <<"Permission.allusers">> \o s.lookups,
                               rv.user, rv.org)
                  ELSE Outcome("ok", rv.lookups \o <<"Permission.allusers">> \o s.lookups,
                               rv.user, rv.org) :
                  s \in scoped_existing(name, context, store)} :
            g \in global_existing(name, store)}

\* PermissionForm.validate(self) on a newly constructed form, with
\* name = self.name.data, context = self.context.data, store = the Permission
\* table.  The set of its possible outcomes (first() may pick any match):
\*   "InvalidContext"         super().validate() is False, return False
\*   "ValidationErrorRaised"  wtf.ValidationError raised out of validate()
\*   "DuplicateGlobal"        name error appended, return False
\*   "DuplicateScoped"        name error appended, return False
\*   "ok"                     return True
\* lookups: the queries made, in order; user, org: self.user, self.org after.
PermissionForm_validate(name, context, edit_obj, store) ==
    LET rv == validate_context(UnsetForm, context)
        edit_id == edit_id_of(edit_obj)
    IN  IF rv.raised
        THEN {Outcome("InvalidContext", rv.lookups, rv.user, rv.org)}
        ELSE IF ~valid_username(name)
        THEN {Outcome("ValidationErrorRaised", rv.lookups, rv.user, rv.org)}
        ELSE UNION {
            IF g # NoPermission /\ g.id # edit_id
            THEN {Outcome("DuplicateGlobal", rv.lookups \o <<"Permission.allusers">>,
                          rv.user, rv.org)}
            ELSE {IF s.existing # NoPermission /\ s.existing.id # edit_id
                  THEN Outcome("DuplicateScoped",
                               rv.lookups \o <<"Permission.allusers">> \o s.lookups,
                               rv.user, rv.org)
                  ELSE Outcome("ok", rv.lookups \o <<"Permission.allusers">> \o s.lookups,
                               rv.user, rv.org) :
                  s \in scoped_existing(name, context, store)} :
            g \in global_existing(name, store)}

\* ------------------------------------------------- the permission handlers
\* Creating a permission: the form is validated and, when accepted, the caller
\* stores a new row under the resolved context (self.user / self.org).
CreatePermission(name, context, allusers) ==
    \E o \in PermissionForm_validate(name, context, NoPermission, perms) :
        /\ o.result = "ok" => Cardinality(perms) < MaxPerms
        /\ perms' = IF o.result = "ok"
                    THEN perms \cup {[id |-> Cardinality(perms) + 1, name |-> name,
                                      allusers |-> allusers, user |-> o.user, org |-> o.org]}
                    ELSE perms
        /\ last' = [NoSubmission EXCEPT
                      !.form = "PermissionForm", !.op = "create", !.name = name,
                      !.data = context, !.allusers = allusers, !.result = o.result,
                      !.lookups = o.lookups, !.user = o.user, !.org = o.org]
        /\ UNCHANGED <<owned, resources, actions, client, grants, requests>>

\* Editing permission p (form.edit_obj = p): when accepted the caller stores
\* the submitted name and the resolved context on the row.
EditPermission(p, name, context) ==
    \E o \in PermissionForm_validate(name, context, p, perms) :
        /\ perms' = IF o.result = "ok"
                    THEN (perms \ {p}) \cup
                         {[p EXCEPT !.name = name, !.user = o.user, !.org = o.org]}
                    ELSE perms
        /\ last' = [NoSubmission EXCEPT
                      !.form = "PermissionForm", !.op = "edit", !.name = name,
                      !.data = context, !.allusers = p.allusers, !.edit = p.id,
                      !.result = o.result, !.lookups = o.lookups,
                      !.user = o.user, !.org = o.org]
        /\ UNCHANGED <<owned, resources, actions, client, grants, requests>>

NextPerm ==
    \/ \E name \in Names, context \in Identifiers, allusers \in BOOLEAN :
          CreatePermission(name, context, allusers)
    \/ \E p \in perms, name \in Names, context \in Identifiers :
          EditPermission(p, name, context)

\* The acting user owns organizations A and B; organization C is not theirs.
InitPerm == Init /\ owned = <<"orgA", "orgB">>

SpecPerm == InitPerm /\ [][NextPerm]_vars

\* ------------------------------------------- properties of the permission form
principal_of(p) == IF p.user # "None" THEN p.user ELSE p.org

\* The submitted identifier is one validate_context accepts.
Usable(data) ==
    \/ data = userid(g_user)
    \/ Cardinality({i \in 1..Len(owned) : userid(owned[i]) = data}) = 1

IsPermissionSubmission(l) ==
    l.form = "PermissionForm" /\ l.op \in {"create", "edit"}

PermissionQueries ==
    {"Permission.allusers", "Permission.user", "Permission.org", "Organization"}

Queried(lookups) == {lookups[i] : i \in 1..Len(lookups)}

\* C2: after a scoped permission (name, context) was created, creating
\* another with the same name under the same context fails with
\* DuplicateScoped, and creating one with the same name under a different
\* usable context that holds no permission of that name succeeds.
C2_ScopedUniquenessPerContext ==
    [][ ( /\ IsPermissionSubmission(last) /\ last.op = "create"
          /\ last.result = "ok" /\ ~last.allusers
          /\ IsPermissionSubmission(last') /\ last'.op = "create"
          /\ last'.name = last.name )
        => /\ last'.data = last.data => last'.result = "DuplicateScoped"
           /\ ( /\ last'.data # last.data
                /\ Usable(last'.data)
                /\ ~\E q \in perms : q.name = last'.name
                                      /\ userid(principal_of(q)) = last'.data )
              => last'.result = "ok"
      ]_vars

C2_Witness ==
    /\ IsPermissionSubmission(last) /\ last.op = "create"
    /\ last.result = "DuplicateScoped"
    /\ \E p, q \in perms : /\ p.name = last.name /\ q.name = last.name
                           /\ ~p.allusers /\ ~q.allusers
                           /\ principal_of(p) # principal_of(q)
                           /\ userid(principal_of(p)) = last.data

\* C3 as stated: once a global permission named n exists, creating a scoped
\* permission named n under an owned organization succeeds, and creating a
\* second global permission named n fails with DuplicateGlobal.
C3_SeparateNamespaces ==
    [][ ( /\ IsPermissionSubmission(last') /\ last'.op = "create"
          /\ Usable(last'.data)
          /\ \E g \in perms : g.allusers /\ g.name = last'.name )
        => /\ (~last'.allusers /\ last'.data # userid(g_user)) => last'.result = "ok"
           /\ last'.allusers => last'.result = "DuplicateGlobal"
      ]_vars

\* C3 amended: once a global permission named n exists, every creation of a
\* permission named n, scoped under any usable context or global, fails with
\* DuplicateGlobal.
C3_GlobalNameReserved ==
    [][ ( /\ IsPermissionSubmission(last') /\ last'.op = "create"
          /\ Usable(last'.data)
          /\ \E g \in perms : g.allusers /\ g.name = last'.name )
        => last'.result = "DuplicateGlobal"
      ]_vars

C3_Witness ==
    /\ IsPermissionSubmission(last) /\ last.op = "create"
    /\ ~last.allusers /\ last.org \in Organization
    /\ last.result = "DuplicateGlobal"
    /\ \E g \in perms : g.allusers /\ g.name = last.name

\* C4 as stated: editing any stored permission with its own name and its own
\* context is accepted, whatever else the store holds.
C4_EditNeverConflicts ==
    [][ ( /\ IsPermissionSubmission(last') /\ last'.op = "edit"
          /\ \E p \in perms : /\ p.id = last'.edit /\ p.name = last'.name
                               /\ userid(principal_of(p)) = last'.data )
        => last'.result = "ok"
      ]_vars

\* C4 amended: editing a stored permission with its own name and its own
\* context is accepted whenever no other permission of that name is global.
C4_EditNoSelfConflict ==
    [][ ( /\ IsPermissionSubmission(last') /\ last'.op = "edit"
          /\ \E p \in perms : /\ p.id = last'.edit /\ p.name = last'.name
                               /\ userid(principal_of(p)) = last'.data
                               /\ ~\E g \in perms : /\ g.allusers /\ g.name = p.name
                                                     /\ g.id # p.id )
        => last'.result = "ok"
      ]_vars

C4_Witness ==
    /\ IsPermissionSubmission(last) /\ last.op = "edit" /\ last.result = "ok"
    /\ \E p, q \in perms : /\ p.id = last.edit /\ p.name = last.name
                           /\ userid(principal_of(p)) = last.data
                           /\ q.id # p.id /\ q.name = p.name

\* C7: a submission whose name fails the charset rule ends with an InvalidName
\* error on the name field, in each of the three forms that define names.
C7_InvalidNameIsFieldError ==
    ( /\ last.form \in {"PermissionForm", "ResourceForm", "ResourceActionForm"}
      /\ last.op \in {"create", "edit"}
      /\ ~valid_username(last.name) )
    => last.result = "InvalidName"

\* C9 as stated: an invalid name is rejected with no lookup made at all, and
\* a global conflict is reported, without the scoped lookup, when both a
\* global and a same-context permission of that name exist.
C9_CharsetBeforeAnyLookup ==
    ( IsPermissionSubmission(last) /\ ~valid_username(last.name) )
    => (last.result # "ok" /\ last.lookups = <<>>)

\* C9 amended: the context's ownership resolution runs first; an invalid name
\* is then rejected before any query of the permission or organization
\* tables; and when both a global and a same-context permission of the
\* submitted name exist (other than the edited one), DuplicateGlobal is
\* reported and no scoped lookup is made.
C9_ValidationOrder ==
    [][ IsPermissionSubmission(last')
        => /\ ~valid_username(last'.name)
              => /\ last'.result # "ok"
                 /\ Queried(last'.lookups) \cap PermissionQueries = {}
           /\ ( /\ valid_username(last'.name) /\ Usable(last'.data)
                /\ \E g \in perms : /\ g.allusers /\ g.name = last'.name
                                     /\ g.id # last'.edit
                /\ \E q \in perms : /\ q.name = last'.name /\ q.id # last'.edit
                                     /\ userid(principal_of(q)) = last'.data )
              => /\ last'.result = "DuplicateGlobal"
                 /\ Queried(last'.lookups) \cap
                      {"Permission.user", "Permission.org", "Organization"} = {}
      ]_vars

C9_Witness ==
    /\ IsPermissionSubmission(last) /\ last.result = "DuplicateGlobal"
    /\ \E g, q \in perms : /\ g.allusers /\ g.name = last.name /\ g.id # last.edit
                           /\ q.name = last.name /\ q.id # last.edit /\ q.id # g.id
                           /\ userid(principal_of(q)) = last.data

\* ------------------------------------------------ ResourceForm.validate_name
\* Mutant: the charset test is skipped.
ResourceForm_validate_name_nocharset(data, edit_id, store) ==
    {IF existing # NoResource /\ existing.id # edit_id
     THEN "DuplicateResource" ELSE "ok" :
     existing \in first({r \in store : r.name = data}, NoResource)}

\* ResourceForm.validate_name(self, field) with data = field.data and
\* edit_id = self.edit_id (None, here 0, when creating).  The ValidationError
\* it may raise, by kind, or "ok".
ResourceForm_validate_name(data, edit_id, store) ==
    IF ~valid_username(data)
    THEN {"InvalidName"}
    ELSE {IF existing # NoResource /\ existing.id # edit_id
          THEN "DuplicateResource" ELSE "ok" :
          existing \in first({r \in store : r.name = data}, NoResource)}

\* Mutant: the lookup is not narrowed to the owning resource.
ResourceActionForm_validate_name_anyresource(data, edit_resource, edit_id, store) ==
    IF ~valid_username(data)
    THEN {"InvalidName"}
    ELSE {IF existing # NoAction /\ existing.id # edit_id
          THEN "DuplicateAction" ELSE "ok" :
          existing \in first({a \in store : a.name = data}, NoAction)}

\* ResourceActionForm.validate_name(self, field) with data = field.data,
\* edit_resource = self.edit_resource and edit_id = self.edit_id.
ResourceActionForm_validate_name(data, edit_resource, edit_id, store) ==
    IF ~valid_username(data)
    THEN {"InvalidName"}
    ELSE {IF existing # NoAction /\ existing.id # edit_id
          THEN "DuplicateAction" ELSE "ok" :
          existing \in first({a \in store : a.name = data /\ a.resource = edit_resource},
                             NoAction)}

\* Defining a resource: Field.validate on ResourceForm.name turns the
\* validator's ValidationError into a field error; the caller stores the
\* resource when the form is accepted.
DefineResource(name) ==
    \E result \in ResourceForm_validate_name(name, 0, resources) :
        /\ result = "ok" => Cardinality(resources) < MaxResources
        /\ resources' = IF result = "ok"
                        THEN resources \cup {[id |-> Cardinality(resources) + 1,
                                              name |-> name]}
                        ELSE resources
        /\ last' = [NoSubmission EXCEPT !.form = "ResourceForm", !.op = "create",
                                        !.name = name, !.result = result]
        /\ UNCHANGED <<owned, perms, actions, client, grants, requests>>

\* Editing resource r (form.edit_id = r.id).
EditResource(r, name) ==
    \E result \in ResourceForm_validate_name(name, r.id, resources) :
        /\ resources' = IF result = "ok"
                        THEN (resources \ {r}) \cup {[r EXCEPT !.name = name]}
                        ELSE resources
        /\ last' = [NoSubmission EXCEPT !.form = "ResourceForm", !.op = "edit",
                                        !.name = name, !.edit = r.id,
                                        !.resource = r.id, !.result = result]
        /\ UNCHANGED <<owned, perms, actions, client, grants, requests>>

\* Defining an action under resource r (form.edit_resource = r, edit_id = None).
DefineAction(r, name) ==
    \E result \in ResourceActionForm_validate_name(name, r.id, 0, actions) :
        /\ result = "ok" => Cardinality(actions) < MaxActions
        /\ actions' = IF result = "ok"
                      THEN actions \cup {[id |-> Cardinality(actions) + 1,
                                          name |-> name, resource |-> r.id]}
                      ELSE actions
        /\ last' = [NoSubmission EXCEPT !.form = "ResourceActionForm", !.op = "create",
                                        !.name = name, !.resource = r.id,
                                        !.result = result]
        /\ UNCHANGED <<owned, perms, resources, client, grants, requests>>

\* Editing action a of its resource (form.edit_resource, form.edit_id = a's).
EditAction(a, name) ==
    \E result \in ResourceActionForm_validate_name(name, a.resource, a.id, actions) :
        /\ actions' = IF result = "ok"
                      THEN (actions \ {a}) \cup {[a EXCEPT !.name = name]}
                      ELSE actions
        /\ last' = [NoSubmission EXCEPT !.form = "ResourceActionForm", !.op = "edit",
                                        !.name = name, !.edit = a.id,
                                        !.resource = a.resource, !.result = result]
        /\ UNCHANGED <<owned, perms, resources, client, grants, requests>>

NextResource ==
    \/ \E name \in Names : DefineResource(name)
    \/ \E r \in resources, name \in Names : EditResource(r, name)
    \/ \E r \in resources, name \in Names : DefineAction(r, name)
    \/ \E a \in actions, name \in Names : EditAction(a, name)

SpecResource == InitPerm /\ [][NextResource]_vars

\* C6: an action name is unique within its resource only.  Defining action n
\* under resource R fails with DuplicateAction exactly when R already has an
\* action named n (whatever other resources hold) and otherwise succeeds;
\* editing an action under its own id with its own name is accepted.
C6_ActionNameUniquePerResource ==
    [][ ( last'.form = "ResourceActionForm" /\ valid_username(last'.name) )
        => /\ last'.op = "create"
              => /\ (\E a \in actions : a.name = last'.name
                                        /\ a.resource = last'.resource)
                    => last'.result = "DuplicateAction"
                 /\ (~\E a \in actions : a.name = last'.name
                                         /\ a.resource = last'.resource)
                    => last'.result = "ok"
           /\ ( /\ last'.op = "edit"
                /\ \E a \in actions : a.id = last'.edit /\ a.name = last'.name )
              => last'.result = "ok"
      ]_vars

C6_Witness ==
    /\ last.form = "ResourceActionForm" /\ last.op = "create"
    /\ last.result = "DuplicateAction"
    /\ \E a, b \in actions : /\ a.name = last.name /\ b.name = last.name
                            /\ a.resource = last.resource
                            /\ b.resource # last.resource

\* ------------------------------------------------------------ the client
Users == {"U", "V"}
Usernames == {"U", "V", "nobody"}
PermissionSets == {{"read"}, {"read", "write"}}

\* lastuserapp.models.getuser: the user with that name, or None.
getuser(name) == IF name \in Users THEN name ELSE "None"

\* UserPermissionAssignForm.validate_username(self, field).
validate_username(data) ==
    LET existing == getuser(data)
    IN  IF existing = "None"
        THEN [raised |-> TRUE, user |-> "Unset"]
        ELSE [raised |-> FALSE, user |-> existing]

\* Registering the client application: the owner field is resolved and the
\* resolved principal becomes the owner.
RegisterClient(data) ==
    LET rv == validate_client_owner(UnsetForm, data)
    IN  /\ client = NoClient
        /\ client' = IF rv.raised THEN client ELSE [user |-> rv.user, org |-> rv.org]
        /\ last' = [NoSubmission EXCEPT
                      !.form = "RegisterClientForm", !.op = "create", !.data = data,
                      !.result = IF rv.raised THEN "InvalidOwner" ELSE "ok",
                      !.lookups = rv.lookups, !.user = rv.user, !.org = rv.org]
        /\ UNCHANGED <<owned, perms, resources, actions, grants, requests>>

\* Mutant: the owner is replaced and the assignments are kept.
EditClient_keepgrants(data) ==
    LET rv == validate_client_owner(UnsetForm, data)
    IN  /\ client # NoClient
        /\ client' = IF rv.raised THEN client ELSE [user |-> rv.user, org |-> rv.org]
        /\ grants' = grants
        /\ last' = [NoSubmission EXCEPT
                      !.form = "RegisterClientForm", !.op = "edit", !.data = data,
                      !.result = IF rv.raised THEN "InvalidOwner" ELSE "ok",
                      !.lookups = rv.lookups, !.user = rv.user, !.org = rv.org]
        /\ UNCHANGED <<owned, perms, resources, actions, requests>>

\* Editing the client application: when the accepted owner differs from the
\* current one, every permission assigned for the client is revoked.
EditClient(data) ==
    LET rv == validate_client_owner(UnsetForm, data)
        changed == ~rv.raised /\ (client.user # rv.user \/ client.org # rv.org)
    IN  /\ client # NoClient
        /\ client' = IF rv.raised THEN client ELSE [user |-> rv.user, org |-> rv.org]
        /\ grants' = IF changed THEN {} ELSE grants
        /\ last' = [NoSubmission EXCEPT
                      !.form = "RegisterClientForm", !.op = "edit", !.data = data,
                      !.result = IF rv.raised THEN "InvalidOwner" ELSE "ok",
                      !.lookups = rv.lookups, !.user = rv.user, !.org = rv.org,
                      !.revoked = IF changed THEN Cardinality(grants) ELSE 0]
        /\ UNCHANGED <<owned, perms, resources, actions, requests>>

\* Assigning a set of permissions on the client to a user: the set replaces
\* whatever the user held.
AssignToUser(username, permset) ==
    LET rv == validate_username(username)
    IN  /\ client # NoClient
        /\ grants' = IF rv.raised THEN grants
                     ELSE {gr \in grants : gr.user # rv.user}
                          \cup {[user |-> rv.user, perms |-> permset]}
        /\ last' = [NoSubmission EXCEPT
                      !.form = "UserPermissionAssignForm", !.op = "assign",
                      !.data = username,
                      !.result = IF rv.raised THEN "UnknownUser" ELSE "ok",
                      !.user = rv.user]
        /\ UNCHANGED <<owned, perms, resources, actions, client, requests>>

NextClient ==
    \/ \E data \in Identifiers : RegisterClient(data)
    \/ \E data \in Identifiers : EditClient(data)
    \/ \E username \in Usernames, permset \in PermissionSets :
          AssignToUser(username, permset)

SpecClient == Init /\ [][NextClient]_vars

\* C5: an accepted client form submission that changes the owner to a
\* different principal leaves no permission assigned for the client.
C5_OwnerChangeRevokes ==
    [][ ( /\ last'.form = "RegisterClientForm" /\ last'.op = "edit"
          /\ last'.result = "ok"
          /\ client # NoClient /\ client' # client )
        => grants' = {}
      ]_vars

C5_Witness ==
    /\ last.form = "RegisterClientForm" /\ last.op = "edit" /\ last.result = "ok"
    /\ last.revoked > 0
    /\ client.org \in Organization
    /\ grants = {}

\* ------------------------------------------- properties of owner resolution
\* How many entries of the owned-organizations list carry the identifier.
Matching(data) == {i \in 1..Len(owned) : userid(owned[i]) = data}

OwnedOrganizations == {owned[i] : i \in 1..Len(owned)}

IsOwnerField(l) ==
    /\ l.op = "field"
    /\ l.form \in {"RegisterClientForm", "PermissionForm"}

Rejection(form) ==
    IF form = "RegisterClientForm" THEN "InvalidOwner" ELSE "InvalidContext"

\* C1: the acting user's own identifier resolves to the user; the identifier
\* carried by exactly one owned organization resolves to that organization;
\* every other identifier is rejected (Invalid owner / Invalid context); and
\* nothing is accepted under a principal other than the user or an
\* organization the user owns.
C1_OwnershipResolution ==
    IsOwnerField(last)
    => /\ last.data = userid(g_user)
          => (last.result = "ok" /\ last.user = g_user /\ last.org = "None")
       /\ (last.data # userid(g_user) /\ Cardinality(Matching(last.data)) = 1)
          => /\ last.result = "ok" /\ last.user = "None"
             /\ last.org \in OwnedOrganizations
             /\ userid(last.org) = last.data
       /\ (last.data # userid(g_user) /\ Cardinality(Matching(last.data)) # 1)
          => last.result = Rejection(last.form)
       /\ last.result = "ok"
          => \/ (last.user = g_user /\ last.org = "None")
             \/ (last.user = "None" /\ last.org \in OwnedOrganizations)

C1_Witness ==
    /\ IsOwnerField(last) /\ last.form = "RegisterClientForm"
    /\ last.result = "InvalidOwner"
    /\ \E o \in Organization \ OwnedOrganizations : userid(o) = last.data
    /\ Len(owned) = 2 /\ owned[1] # owned[2]

\* C10: an accepting owner/context validation leaves exactly one of the
\* form's user and org set, to the principal that carries the submitted
\* identifier; a rejecting one leaves both attributes as they were.
C10_AttributesSetOnlyOnAccept ==
    [][ IsOwnerField(last')
        => /\ last'.result = "ok"
              => /\ (last'.user = "None") # (last'.org = "None")
                 /\ last'.user # "Unset" /\ last'.org # "Unset"
                 /\ last'.user # "None" => (last'.user = g_user
                                            /\ userid(last'.user) = last'.data)
                 /\ last'.org # "None" => (last'.org \in OwnedOrganizations
                                           /\ userid(last'.org) = last'.data)
           /\ last'.result # "ok"
              => /\ last'.user = FormObject(last'.form).user
                 /\ last'.org = FormObject(last'.form).org
      ]_vars

C10_Witness ==
    /\ IsOwnerField(last) /\ last.form = "PermissionForm"
    /\ last.result = "InvalidContext"
    /\ last.org \in Organization

\* -------------------------------------------------- concurrent creations
RequestNames == {<<"a">>, <<"b", "-", "1">>}
RequestContexts == {"idU", "idA", "idC"}

\* A request's uniqueness check: PermissionForm.validate against the store as
\* it is at that moment.
RequestCheck(r, name, context, allusers) ==
    \E o \in PermissionForm_validate(name, context, NoPermission, perms) :
        /\ requests[r].pc = "idle"
        /\ requests' = [requests EXCEPT ![r] =
                          [pc |-> IF o.result = "ok" THEN "checked" ELSE "done",
                           at |-> "check", name |-> name, allusers |-> allusers,
                           user |-> o.user, org |-> o.org, result |-> o.result]]
        /\ UNCHANGED <<owned, perms, resources, actions, client, grants, last>>

\* The uniqueness constraints of the permission table, as seen by a write.
WriteConflict(req, store) ==
    IF req.allusers /\ \E p \in store : p.allusers /\ p.name = req.name
    THEN "DuplicateGlobal"
    ELSE IF \E p \in store : p.name = req.name /\ p.user = req.user /\ p.org = req.org
    THEN "DuplicateScoped"
    ELSE "ok"

\* Mutant: the write is made without the table's constraints.
RequestWrite_unconstrained(r) ==
    LET req == requests[r]
    IN  /\ req.pc = "checked"
        /\ perms' = perms \cup {[id |-> Cardinality(perms) + 1, name |-> req.name,
                                 allusers |-> req.allusers, user |-> req.user,
                                 org |-> req.org]}
        /\ requests' = [requests EXCEPT ![r] = [req EXCEPT !.pc = "done", !.at = "write"]]
        /\ UNCHANGED <<owned, resources, actions, client, grants, last>>

\* A request's write, a separate step after its check: a constraint violation
\* is reported to the requester as the matching Duplicate error.
RequestWrite(r) ==
    LET req == requests[r]
        verdict == WriteConflict(req, perms)
    IN  /\ req.pc = "checked"
        /\ perms' = IF verdict = "ok"
                    THEN perms \cup {[id |-> Cardinality(perms) + 1, name |-> req.name,
                                      allusers |-> req.allusers, user |-> req.user,
                                      org |-> req.org]}
                    ELSE perms
        /\ requests' = [requests EXCEPT ![r] =
                          [req EXCEPT !.pc = "done", !.at = "write", !.result = verdict]]
        /\ UNCHANGED <<owned, resources, actions, client, grants, last>>

NextConcurrent ==
    \/ \E r \in 1..MaxRequests, name \in RequestNames, context \in RequestContexts,
          allusers \in BOOLEAN : RequestCheck(r, name, context, allusers)
    \/ \E r \in 1..MaxRequests : RequestWrite(r)

SpecConcurrent == InitPerm /\ [][NextConcurrent]_vars

\* C8: however the checks and writes of concurrent creations interleave, the
\* store holds at most one global permission per name and at most one
\* permission per (name, context), and a request whose write is refused ends
\* with a Duplicate error, never with an internal fault.
C8_UniqueUnderRaces ==
    /\ \A p, q \in perms :
          (p.name = q.name /\ p.allusers /\ q.allusers) => p = q
    /\ \A p, q \in perms :
          (p.name = q.name /\ p.user = q.user /\ p.org = q.org) => p = q
    /\ \A r \in 1..MaxRequests :
          (requests[r].pc = "done" /\ requests[r].at = "write")
          => requests[r].result \in {"ok", "DuplicateGlobal", "DuplicateScoped"}

C8_Witness ==
    \E r1, r2 \in 1..MaxRequests :
        /\ r1 # r2
        /\ requests[r1].pc = "done" /\ requests[r1].at = "write"
        /\ requests[r1].result = "ok"
        /\ requests[r2].pc = "done" /\ requests[r2].at = "write"
        /\ requests[r2].result = "DuplicateScoped"
        /\ requests[r1].name = requests[r2].name

====
